---- MODULE Spec2Model ----
(***************************************************************************)
(* The Polar payment webhook receiver (pages/api/verify-payment): one      *)
(* async handler per inbound request, with the provider's payment-lookup   *)
(* API as its only suspension point.                                       *)
(*                                                                         *)
(* JavaScript values of the payload are modelled as strings, with three    *)
(* distinguished tokens: Undefined (key absent), Null, and Obj (a JSON     *)
(* object such as {"toString":1}, which is truthy and throws a TypeError   *)
(* when converted to a string).  The empty string is the falsy string.     *)
(***************************************************************************)
EXTENDS Integers, Sequences, FiniteSets, TLC

VARIABLES
    env,        \* process configuration, read once at module load
    req,        \* req[r]: the inbound request r, NoReq before it arrives
    pc,         \* pc[r]: where the handler invocation for r stands
    details,    \* details[r]: paymentDetails parsed for r
    verif,      \* verif[r]: verificationResult of the handler's await
    reply,      \* reply[r]: the provider's answer to that await, NoAnswer before
    resp,       \* resp[r]: the response written for r, NoResp before
    calls,      \* calls[r]: outbound fetches issued for r
    log         \* log[r]: the steps the handler has taken for r, in order

vars == <<env, req, pc, details, verif, reply, resp, calls, log>>

\* Bounds of the model.
MaxIdKeys == 2      \* payment-id keys present together in one payload
MaxWs == 1          \* insignificant whitespace bytes in a JSON body

\* The two invocations the model follows; Spec runs the first alone.
Ids == {1, 2}
Solo == {1}

----------------------------------------------------------------------------
\* JavaScript values

Undefined == "<undefined>"
Null == "<null>"
Obj == "<object>"

\* ToBoolean on string | undefined | null | object
Truthy(v) == v \notin {Undefined, Null, ""}

\* a || b
Or(a, b) == IF Truthy(a) THEN a ELSE b

\* String(v) inside a template literal; Obj has no callable toString
Throws(v) == v = Obj
ToStr(v) == IF v = Undefined THEN "undefined" ELSE IF v = Null THEN "null" ELSE v

\* obj.key and obj.data?.key on a parsed payload: a missing key is undefined
Get(p, k) == IF k \in DOMAIN p THEN p[k] ELSE Undefined

\* a string has none of the payload's properties
Prop(body, k) == IF body.kind = "json" THEN Get(body.payload, k) ELSE Undefined

----------------------------------------------------------------------------
\* Request bodies.  A body on the wire is JSON text: a payload (its keys in
\* order, flattened to "data.x" for the nested ones) plus ws insignificant
\* whitespace bytes.  The framework hands the handler req.body: nothing
\* ("none"), the text itself ("text", a non-JSON content type) or the parsed
\* object ("json").

EmptyPayload == [k \in {} |-> ""]

\* JSON.stringify(JSON.parse(text)): the compact serialisation
JsonStringify(payload) == [payload |-> payload, ws |-> 0]

\* the text on the wire
WireText(body) == [payload |-> body.payload, ws |-> body.ws]

\* part_000:43-45  typeof requestBody === 'string' ? requestBody : JSON.stringify(requestBody)
RawBody(body) ==
    IF body.kind = "text" THEN WireText(body) ELSE JsonStringify(body.payload)

\* part_000:28  !requestBody || Object.keys(requestBody).length === 0
BodyEmpty(body) ==
    \/ body.kind = "none"
    \/ body.kind = "json" /\ DOMAIN body.payload = {}

----------------------------------------------------------------------------
\* Signatures.  An HMAC-SHA256 hex digest is modelled as the pair it
\* authenticates (no two texts or keys collide), its length in bytes and a
\* count of bytes altered after signing.

HexLen == 64

NoSig == [mac |-> <<>>, len |-> 0, tweak |-> 0]
AbsentSig == [mac |-> <<>>, len |-> -1, tweak |-> 0]

\* crypto.createHmac('sha256', secret).update(payload).digest('hex')
HmacHex(secret, text) == [mac |-> <<secret, text>>, len |-> HexLen, tweak |-> 0]

\* a header value is truthy when present and non-empty
SigTruthy(s) == s.len > 0

\* crypto.timingSafeEqual: throws on buffers of different byte length
TimingSafeEqualThrows(a, b) == a.len # b.len
TimingSafeEqual(a, b) == a.mac = b.mac /\ a.tweak = b.tweak

verifyPolarSignature(payload, signature, secret) ==
    LET expectedSignature == HmacHex(secret, payload)
    IN  IF TimingSafeEqualThrows(signature, expectedSignature)
        THEN FALSE
        ELSE TimingSafeEqual(signature, expectedSignature)

\* part_000:37-39  the first truthy of the three headers
SignatureHeader(headers) ==
    IF SigTruthy(headers.xpolar) THEN headers.xpolar
    ELSE IF SigTruthy(headers.polar) THEN headers.polar
    ELSE headers.xsig

ShouldVerify_HeaderOnly(secret, signature) == SigTruthy(signature)

\* part_000:42  POLAR_WEBHOOK_SECRET && signature
ShouldVerify(secret, signature) == Truthy(secret) /\ SigTruthy(signature)

----------------------------------------------------------------------------
\* Field extraction.  Numbers are counted in hundredths (1999 is 199900 and
\* 19.99 is 1999); NoNum stands for undefined and null, and 0 is the falsy
\* number.

NoNum == -1
NumKeys == {"data.amount_cents", "amount_cents", "data.amount", "amount",
            "data.refund_amount", "refund_amount"}

NumProp(body, k) ==
    IF body.kind = "json" /\ k \in DOMAIN body.payload THEN body.payload[k] ELSE NoNum

NumTruthy(n) == n > 0
NumOr(a, b) == IF NumTruthy(a) THEN a ELSE b

\* parseFloat((n / 100).toFixed(2)), for n / 100 not halfway between two
\* hundredths
Fixed2OfCents(n) == (n + 50) \div 100

parsePaymentDetails(body) ==
    LET amountCents ==
            NumOr(NumProp(body, "data.amount_cents"),
            NumOr(NumProp(body, "amount_cents"),
            NumOr(NumProp(body, "data.amount"), NumProp(body, "amount"))))
    IN
    [ paymentId |->
        Or(Prop(body, "data.id"),
        Or(Prop(body, "data.payment_id"),
        Or(Prop(body, "payment_id"),
        Or(Prop(body, "id"),
        Or(Prop(body, "data.checkout_id"),
        Or(Prop(body, "checkout_id"), Null)))))),
      amount |-> IF NumTruthy(amountCents) THEN Fixed2OfCents(amountCents) ELSE NoNum,
      amountCents |-> IF NumTruthy(amountCents) THEN amountCents ELSE NoNum,
      currency |->
        Or(Prop(body, "data.currency"), Or(Prop(body, "currency"), "USD")),
      customerId |->
        Or(Prop(body, "data.customer_id"),
        Or(Prop(body, "customer_id"),
        Or(Prop(body, "data.user_id"),
        Or(Prop(body, "user_id"),
        Or(Prop(body, "data.customer.id"), Null))))),
      productId |->
        Or(Prop(body, "data.product_id"),
        Or(Prop(body, "product_id"),
        Or(Prop(body, "data.product.id"), Null))),
      subscriptionId |->
        Or(Prop(body, "data.subscription_id"),
        Or(Prop(body, "subscription_id"),
        Or(Prop(body, "data.subscription.id"), Null))),
      status |->
        Or(Prop(body, "data.status"),
        Or(Prop(body, "status"),
        Or(Prop(body, "data.state"),
        Or(Prop(body, "state"), Null)))),
      eventType |->
        Or(Prop(body, "type"), Or(Prop(body, "event"), Null)),
      metadata |->
        Or(Prop(body, "data.metadata"), Or(Prop(body, "metadata"), "{}")),
      createdAt |->
        Or(Prop(body, "data.created_at"), Or(Prop(body, "created_at"), Null)),
      updatedAt |->
        Or(Prop(body, "data.updated_at"), Or(Prop(body, "updated_at"), Null)),
      rawData |-> body ]

NoDetails == parsePaymentDetails([kind |-> "none", payload |-> EmptyPayload, ws |-> 0])

----------------------------------------------------------------------------
\* Provider verification.  Status strings of the provider are sequences of
\* characters, so that toLowerCase is computed and not assumed.

Upper == <<"A","B","C","D","E","F","G","H","I","J","K","L","M",
           "N","O","P","Q","R","S","T","U","V","W","X","Y","Z">>
Lower == <<"a","b","c","d","e","f","g","h","i","j","k","l","m",
           "n","o","p","q","r","s","t","u","v","w","x","y","z">>

LowerChar(c) ==
    IF \E i \in DOMAIN Upper : Upper[i] = c
    THEN Lower[CHOOSE i \in DOMAIN Upper : Upper[i] = c]
    ELSE c

\* String.prototype.toLowerCase
ToLowerCase(s) == [i \in DOMAIN s |-> LowerChar(s[i])]

NoStr == <<>>                       \* undefined or "" : the falsy strings
StrTruthy(s) == s # NoStr
StrOr(a, b) == IF StrTruthy(a) THEN a ELSE b

validStatuses_NoProcessed ==
    { <<"s","u","c","c","e","e","d","e","d">>,
      <<"c","o","m","p","l","e","t","e","d">>,
      <<"p","a","i","d">> }

\* part_000:321
validStatuses ==
    { <<"s","u","c","c","e","e","d","e","d">>,
      <<"c","o","m","p","l","e","t","e","d">>,
      <<"p","a","i","d">>,
      <<"p","r","o","c","e","s","s","e","d">> }

\* part_000:320  paymentData.status || paymentData.state || paymentData.payment_status
StatusField(paymentData) ==
    StrOr(paymentData.status, StrOr(paymentData.state, paymentData.payment_status))

\* part_000:322
\* any reported status counts as valid
IsValidStatus_AnyReported(status) == StrTruthy(status)

IsValidStatus(status) ==
    StrTruthy(status) /\ ToLowerCase(status) \in validStatuses

\* response.ok
ResponseOk(answer) == answer.code = "200"

NoVerif == [success |-> FALSE, error |-> "<none>", status |-> NoStr, called |-> FALSE]

\* part_000:277-284  no credential: skipped and passed, data null
VerifySkipped ==
    [success |-> TRUE, error |-> "", status |-> NoStr, called |-> FALSE]

\* part_000:343-351  the catch of verifyPaymentWithPolar
VerifyThrew(called) ==
    [success |-> FALSE, error |-> "Verification error", status |-> NoStr, called |-> called]

\* What verifyPaymentWithPolar does before it suspends: "skipped" (no
\* credential), "missing" (no payment id), "threw" (the URL template threw
\* inside the try) or "fetch" (the request is on its way).
VerifyStart_AlwaysFetch(apiKey, paymentId) == "fetch"

VerifyStart(apiKey, paymentId) ==
    IF ~Truthy(apiKey) THEN "skipped"
    ELSE IF ~Truthy(paymentId) THEN "missing"
    ELSE IF Throws(paymentId) THEN "threw"
    ELSE "fetch"

VerifyMissing ==
    [success |-> FALSE, error |-> "Missing payment ID", status |-> NoStr, called |-> FALSE]

\* What verifyPaymentWithPolar returns once the provider has answered.
VerifyFinish(answer) ==
    IF answer.net = "reject" THEN VerifyThrew(TRUE)
    ELSE IF ~ResponseOk(answer) THEN
        [success |-> FALSE, error |-> "API verification failed",
         status |-> NoStr, called |-> TRUE]
    ELSE IF ~answer.json THEN VerifyThrew(TRUE)
    ELSE LET status == StatusField(answer.data)
         IN  IF ~IsValidStatus(status)
             THEN [success |-> FALSE, error |-> "Invalid payment status",
                   status |-> status, called |-> TRUE]
             ELSE [success |-> TRUE, error |-> "",
                   status |-> ToLowerCase(status), called |-> TRUE]

VerifyResult(kind) ==
    IF kind = "skipped" THEN VerifySkipped
    ELSE IF kind = "missing" THEN VerifyMissing
    ELSE VerifyThrew(FALSE)

----------------------------------------------------------------------------
\* The handler

\* part_000:15
MethodAllowed_OnlyGetRejected(method) == method # "GET"

MethodAllowed(method) == method = "POST"

StackIncluded_NonProduction(nodeEnv) == nodeEnv # "production"

\* part_000:142  process.env.NODE_ENV === 'development'
StackIncluded(nodeEnv) == nodeEnv = "development"

\* part_000:88  requestBody.type || requestBody.event || paymentDetails.eventType
EventType(body, d) == Or(Or(Prop(body, "type"), Prop(body, "event")), d.eventType)

EventBranch_NoRefund(eventType) ==
    IF eventType \in {"payment.succeeded", "payment.completed", "checkout.succeeded"}
    THEN "success"
    ELSE IF eventType \in {"payment.failed", "payment.cancelled", "checkout.failed"}
    THEN "failure"
    ELSE "unhandled"

\* part_000:92-115  the switch
EventBranch(eventType) ==
    IF eventType \in {"payment.succeeded", "payment.completed", "checkout.succeeded"}
    THEN "success"
    ELSE IF eventType \in {"payment.failed", "payment.cancelled", "checkout.failed"}
    THEN "failure"
    ELSE IF eventType = "payment.refunded"
    THEN "refund"
    ELSE "unhandled"

\* which outcome handlers ask the provider again (part_000:411, 458)
Reconfirms_SuccessToo(branch) == branch \in {"success", "failure", "refund"}

Reconfirms(branch) == branch \in {"failure", "refund"}

NoReq == [method |-> "<none>",
          headers |-> [xpolar |-> AbsentSig, polar |-> AbsentSig, xsig |-> AbsentSig],
          body |-> [kind |-> "none", payload |-> EmptyPayload, ws |-> 0]]

NoProcessing == [success |-> FALSE, message |-> <<>>, action |-> "", reason |-> "",
                 refundAmount |-> NoNum]
NoVerification == [verified |-> FALSE, paymentId |-> Undefined,
                   provider |-> NoStr, payload |-> Undefined]
NoPayment == [id |-> Undefined, amount |-> NoNum, currency |-> Undefined,
              customerId |-> Undefined]

NoResp == [status |-> 0, success |-> FALSE, error |-> Undefined, message |-> <<>>,
           paymentId |-> Undefined, details |-> Undefined,
           verification |-> NoVerification, payment |-> NoPayment,
           processing |-> NoProcessing]

\* an error envelope: {success:false, error, message, [paymentId], [details]}
ErrorResp(status, error, message, paymentId, stack) ==
    [NoResp EXCEPT !.status = status, !.error = error, !.message = message,
                   !.paymentId = paymentId, !.details = stack]

\* part_000:118-134
OkResp(d, v, processing) ==
    [NoResp EXCEPT
        !.status = 200, !.success = TRUE,
        !.message = <<"Payment verified and processed successfully">>,
        !.verification =
            [verified |-> TRUE, paymentId |-> d.paymentId,
             provider |-> v.status,
             payload |-> IF StrTruthy(v.status) THEN Undefined ELSE d.status],
        !.payment = [id |-> d.paymentId, amount |-> d.amount, currency |-> d.currency,
                     customerId |-> d.customerId],
        !.processing = processing]

Out(p, d, v, rs, n, l) ==
    [pc |-> p, details |-> d, verif |-> v, resp |-> rs, calls |-> n, log |-> l]

\* part_000:136-144  the catch at the handler boundary
Caught(e, d, v, n, l) ==
    Out("done", d, v,
        ErrorResp(500, "Internal server error",
                  <<"Cannot convert object to primitive value">>, Undefined,
                  IF StackIncluded(e.nodeEnv) THEN "<stack>" ELSE Undefined),
        n, l \o <<"throw", "error">>)

\* part_000:404-408
FailureReason(body) ==
    Or(Prop(body, "data.failure_reason"),
    Or(Prop(body, "failure_reason"),
    Or(Prop(body, "data.error"),
    Or(Prop(body, "error"), "Unknown error"))))

\* part_000:452-455, 480
RefundAmount(body, d) ==
    NumOr(NumProp(body, "data.refund_amount"),
    NumOr(NumProp(body, "refund_amount"), d.amount))

\* the return of an outcome handler, whose message interpolates the payment id
HandlerResult(branch, q, d) ==
    IF branch = "success" THEN
        [success |-> TRUE,
         message |-> <<"Payment ", ToStr(d.paymentId), " verified and processed successfully">>,
         action |-> "granted_access", reason |-> "", refundAmount |-> NoNum]
    ELSE IF branch = "failure" THEN
        [success |-> TRUE,
         message |-> <<"Payment ", ToStr(d.paymentId), " failure processed">>,
         action |-> "logged_failure", reason |-> FailureReason(q.body),
         refundAmount |-> NoNum]
    ELSE
        [success |-> TRUE,
         message |-> <<"Payment ", ToStr(d.paymentId), " refund processed">>,
         action |-> "revoked_access", reason |-> "",
         refundAmount |-> RefundAmount(q.body, d)]

\* the rest of an outcome handler, then the 200 of the handler
AfterHandler(e, q, d, v, branch, n, l) ==
    IF Throws(d.paymentId)
    THEN Caught(e, d, v, n, l)
    ELSE Out("done", d, v, OkResp(d, v, HandlerResult(branch, q, d)), n,
             l \o <<"routed", "respond">>)

PaymentIdMissing_Never(d) == FALSE

\* part_000:66  !paymentDetails.paymentId
PaymentIdMissing(d) == ~Truthy(d.paymentId)

\* part_000:87-134  event routing, up to the next suspension or the response
Route(e, q, d, v, n, l) ==
    LET eventType == EventType(q.body, d)
        branch == EventBranch(eventType)
    IN  IF branch = "unhandled" THEN
            IF Throws(eventType)
            THEN Caught(e, d, v, n, l \o <<"unhandled">>)
            ELSE Out("done", d, v,
                     OkResp(d, v,
                        [success |-> TRUE,
                         message |-> <<"Event type '", ToStr(eventType),
                                       "' received but not processed">>,
                         action |-> "", reason |-> "", refundAmount |-> NoNum]),
                     n, l \o <<"unhandled", "routed", "respond">>)
        ELSE LET l1 == l \o <<branch>>
             IN  IF /\ Reconfirms(branch)
                    /\ Truthy(d.paymentId) /\ Truthy(e.apiKey)
                    /\ VerifyStart(e.apiKey, d.paymentId) = "fetch"
                 THEN Out("awaitConfirm", d, v, NoResp, n + 1, l1 \o <<"fetch">>)
                 ELSE AfterHandler(e, q, d, v, branch, n, l1)

VerificationFailed_Continues(d, v, n, l) ==
    Out("done", d, v,
        OkResp(d, v, [NoProcessing EXCEPT !.success = TRUE]),
        n, l \o <<"routed", "respond">>)

\* part_000:77-85
VerificationFailed(d, v, n, l) ==
    Out("done", d, v,
        ErrorResp(400, "Payment verification failed", <<v.error>>, d.paymentId, Undefined),
        n, l \o <<"error">>)

\* part_000:13-75  from the arrival of the request to the first suspension
Begin(e, q) ==
    IF ~MethodAllowed(q.method) THEN
        Out("done", NoDetails, NoVerif,
            ErrorResp(405, "Method not allowed", <<"Only POST requests are accepted">>,
                      Undefined, Undefined),
            0, <<"enter", "error">>)
    ELSE IF BodyEmpty(q.body) THEN
        Out("done", NoDetails, NoVerif,
            ErrorResp(400, "Invalid request", <<"Request body is empty or invalid">>,
                      Undefined, Undefined),
            0, <<"enter", "error">>)
    ELSE
    LET signature == SignatureHeader(q.headers)
        check == ShouldVerify(e.secret, signature)
    IN  IF check /\ ~verifyPolarSignature(RawBody(q.body), signature, e.secret) THEN
            Out("done", NoDetails, NoVerif,
                ErrorResp(401, "Invalid signature",
                          <<"Webhook signature verification failed">>, Undefined, Undefined),
                0, <<"enter", "sig_verify", "error">>)
        ELSE
        LET l1 == IF check THEN <<"enter", "sig_verify", "sig_ok">>
                           ELSE <<"enter", "sig_skip">>
            d == parsePaymentDetails(q.body)
            l2 == l1 \o <<"parse">>
        IN  IF PaymentIdMissing(d) THEN
                Out("done", d, NoVerif,
                    ErrorResp(400, "Invalid payment data",
                              <<"Payment ID not found in request">>, Undefined, Undefined),
                    0, l2 \o <<"error">>)
            ELSE
            LET l3 == l2 \o <<"extracted">>
                start == VerifyStart(e.apiKey, d.paymentId)
            IN  IF start = "fetch" THEN
                    Out("awaitVerify", d, NoVerif, NoResp, 1, l3 \o <<"fetch">>)
                ELSE IF VerifyResult(start).success THEN
                    Route(e, q, d, VerifyResult(start), 0, l3 \o <<"verified">>)
                ELSE VerificationFailed(d, VerifyResult(start), 0, l3)

----------------------------------------------------------------------------
\* Inputs: configurations, requests and provider answers

Secret == "whsec_1"
ApiKey == "polar_key"

Envs ==
    [secret : {Undefined, "", Secret},
     apiKey : {Undefined, ApiKey},
     nodeEnv : {"production", "development", "test", Undefined}]

IdKeys == {"data.id", "data.payment_id", "payment_id", "id",
           "data.checkout_id", "checkout_id"}

IdValue == [k \in IdKeys |->
    CASE k = "data.id" -> "pay_data_id"
      [] k = "data.payment_id" -> "pay_data_payment_id"
      [] k = "payment_id" -> "pay_payment_id"
      [] k = "id" -> "pay_id"
      [] k = "data.checkout_id" -> "pay_data_checkout_id"
      [] k = "checkout_id" -> "pay_checkout_id"]

\* payloads of at most MaxIdKeys payment-id keys, at most one of them falsy
IdPayloads ==
    { [k \in S |-> IF k \in F THEN "" ELSE IdValue[k]] :
        <<S, F>> \in { sf \in (SUBSET IdKeys) \X (SUBSET IdKeys) :
                        /\ Cardinality(sf[1]) <= MaxIdKeys
                        /\ sf[2] \subseteq sf[1]
                        /\ Cardinality(sf[2]) <= 1 } }

EventNames == {"payment.succeeded", "payment.completed", "checkout.succeeded",
               "payment.failed", "payment.cancelled", "checkout.failed",
               "payment.refunded", "payment.unknown"}

\* f with key k set to v; an undefined v leaves the key out
With(f, k, v) ==
    IF v = Undefined THEN f
    ELSE [x \in DOMAIN f \cup {k} |-> IF x = k THEN v ELSE f[x]]

WithNum(f, k, n) ==
    IF n = NoNum THEN f
    ELSE [x \in DOMAIN f \cup {k} |-> IF x = k THEN n ELSE f[x]]

\* (type, event) pairs: every name as type, and event under a missing, empty
\* or unknown type
EventPairs ==
    { <<t, Undefined>> : t \in EventNames \cup {Undefined, ""} } \cup
    ({Undefined, "", "payment.unknown"} \X
        {"payment.succeeded", "checkout.failed", "payment.refunded"})

BasePayload == [k \in {"id"} |-> "pay_id"]

Payloads ==
    { With(p, "type", t) :
        <<p, t>> \in IdPayloads \X {"payment.succeeded", "payment.failed"} } \cup
    { With(With(BasePayload, "type", te[1]), "event", te[2]) : te \in EventPairs } \cup
    { With(With(BasePayload, "type", "payment.failed"), "data.failure_reason", "card_declined") } \cup
    { WithNum(WithNum(With(BasePayload, "type", t), "amount_cents", c), "amount", a) :
        <<t, c, a>> \in {"payment.succeeded", "payment.refunded"}
                        \X {NoNum, 199900} \X {NoNum, 1999} } \cup
    { WithNum(With(BasePayload, "type", "payment.refunded"), "data.refund_amount", 500) }

\* payloads carrying a value that is no string
MalformedPayloads ==
    { With(BasePayload, "type", Obj),
      With([k \in {"data.id"} |-> Obj], "type", "payment.succeeded"),
      With([k \in {"data.id"} |-> Obj], "type", "payment.refunded") }

Body(kind, payload, ws) == [kind |-> kind, payload |-> payload, ws |-> ws]
NoBody == Body("none", EmptyPayload, 0)

NoHeaders == [xpolar |-> AbsentSig, polar |-> AbsentSig, xsig |-> AbsentSig]

OtherText == [payload |-> With(BasePayload, "type", "payment.refunded"), ws |-> 0]

\* what a sender may put in a signature header of a request carrying body
Signatures(body) ==
    LET good == HmacHex(Secret, WireText(body))
    IN  { NoSig, good,
          HmacHex(Secret, JsonStringify(body.payload)),
          HmacHex(Secret, OtherText),
          HmacHex("whsec_2", WireText(body)),
          [good EXCEPT !.tweak = 1],
          [good EXCEPT !.len = HexLen - 1],
          [good EXCEPT !.len = HexLen + 1] }

HeaderSets(body) ==
    { [NoHeaders EXCEPT !.xpolar = s] : s \in Signatures(body) } \cup
    { [NoHeaders EXCEPT !.polar = s] : s \in Signatures(body) } \cup
    { [NoHeaders EXCEPT !.xsig = s] : s \in Signatures(body) } \cup
    { [NoHeaders EXCEPT !.xpolar = a, !.polar = b] :
        <<a, b>> \in {NoSig, [HmacHex(Secret, WireText(body)) EXCEPT !.tweak = 1]}
                     \X {HmacHex(Secret, WireText(body))} } \cup
    { NoHeaders }

SignedPayloads ==
    { With(BasePayload, "type", "payment.succeeded"),
      With(BasePayload, "type", "payment.failed"),
      [k \in {"type"} |-> "payment.succeeded"] }

SignedBodies ==
    { Body(kind, p, ws) :
        <<kind, p, ws>> \in {"json", "text"} \X SignedPayloads \X (0 .. MaxWs) }

Requests ==
    \* other methods
    { [method |-> m, headers |-> h, body |-> b] :
        <<m, h, b>> \in {"GET", "PUT", "DELETE"}
                        \X {NoHeaders, [NoHeaders EXCEPT !.xsig = NoSig]}
                        \X {NoBody, Body("json", BasePayload, 0)} } \cup
    \* signed and unsigned deliveries
    UNION { { [method |-> "POST", headers |-> h, body |-> b] : h \in HeaderSets(b) } :
            b \in SignedBodies } \cup
    \* payload shapes
    { [method |-> "POST", headers |-> NoHeaders, body |-> b] :
        b \in { Body("json", p, 0) : p \in Payloads \cup MalformedPayloads \cup {EmptyPayload} }
              \cup {NoBody} }

Chars(s) ==
    CASE s = "succeeded" -> <<"s","u","c","c","e","e","d","e","d">>
      [] s = "completed" -> <<"c","o","m","p","l","e","t","e","d">>
      [] s = "paid" -> <<"p","a","i","d">>
      [] s = "processed" -> <<"p","r","o","c","e","s","s","e","d">>
      [] s = "Paid" -> <<"P","a","i","d">>
      [] s = "PROCESSED" -> <<"P","R","O","C","E","S","S","E","D">>
      [] s = "pending" -> <<"p","e","n","d","i","n","g">>
      [] s = "failed" -> <<"f","a","i","l","e","d">>
      [] s = "refunded" -> <<"r","e","f","u","n","d","e","d">>
      [] s = "" -> NoStr

NoData == [status |-> NoStr, state |-> NoStr, payment_status |-> NoStr]

PaymentData ==
    { [NoData EXCEPT !.status = Chars(s)] :
        s \in {"succeeded", "completed", "paid", "processed", "Paid", "PROCESSED",
               "pending", "failed", "refunded", ""} } \cup
    { [NoData EXCEPT !.state = Chars(s)] : s \in {"paid", "Paid", "pending"} } \cup
    { [NoData EXCEPT !.payment_status = Chars(s)] : s \in {"paid", "Paid", "pending"} } \cup
    { [NoData EXCEPT !.status = Chars("pending"), !.state = Chars("paid")],
      [NoData EXCEPT !.status = Chars("paid"), !.state = Chars("pending")],
      [NoData EXCEPT !.state = Chars("failed"), !.payment_status = Chars("paid")] }

NoAnswer == [net |-> "<none>", code |-> "", json |-> FALSE, data |-> NoData]

Answers ==
    { [net |-> "reject", code |-> "", json |-> FALSE, data |-> NoData] } \cup
    { [net |-> "ok", code |-> c, json |-> FALSE, data |-> NoData] :
        c \in {"404", "500", "200"} } \cup
    { [net |-> "ok", code |-> "200", json |-> TRUE, data |-> pd] : pd \in PaymentData }

----------------------------------------------------------------------------
\* The state machine

Init ==
    /\ env \in Envs
    /\ req = [r \in Ids |-> NoReq]
    /\ pc = [r \in Ids |-> "idle"]
    /\ details = [r \in Ids |-> NoDetails]
    /\ verif = [r \in Ids |-> NoVerif]
    /\ reply = [r \in Ids |-> NoAnswer]
    /\ resp = [r \in Ids |-> NoResp]
    /\ calls = [r \in Ids |-> 0]
    /\ log = [r \in Ids |-> <<>>]

\* verificationResult kept in one module-level variable
Apply_SharedVerification(r, o) ==
    /\ pc' = [pc EXCEPT ![r] = o.pc]
    /\ details' = [details EXCEPT ![r] = o.details]
    /\ verif' = [x \in Ids |-> o.verif]
    /\ resp' = [resp EXCEPT ![r] = o.resp]
    /\ calls' = [calls EXCEPT ![r] = o.calls]
    /\ log' = [log EXCEPT ![r] = o.log]

Apply(r, o) ==
    /\ pc' = [pc EXCEPT ![r] = o.pc]
    /\ details' = [details EXCEPT ![r] = o.details]
    /\ verif' = [verif EXCEPT ![r] = o.verif]
    /\ resp' = [resp EXCEPT ![r] = o.resp]
    /\ calls' = [calls EXCEPT ![r] = o.calls]
    /\ log' = [log EXCEPT ![r] = o.log]

\* a request arrives and the handler runs to its first suspension
Receive(r) ==
    /\ pc[r] = "idle"
    /\ \E q \in Requests :
        /\ req' = [req EXCEPT ![r] = q]
        /\ Apply(r, Begin(env, q))
    /\ UNCHANGED <<env, reply>>

\* the provider answers the handler's verification call
ProviderAnswers(r) ==
    /\ pc[r] = "awaitVerify"
    /\ \E a \in Answers :
        LET v == VerifyFinish(a)
            l == log[r] \o <<"fetch_done">>
        IN  /\ reply' = [reply EXCEPT ![r] = a]
            /\ IF v.success
               THEN Apply(r, Route(env, req[r], details[r], v, calls[r],
                                   l \o <<"verified">>))
               ELSE Apply(r, VerificationFailed(details[r], v, calls[r], l))
    /\ UNCHANGED <<env, req>>

\* the provider answers the call of the failure or refund handler, which
\* only logs it
ConfirmAnswers(r) ==
    /\ pc[r] = "awaitConfirm"
    /\ \E a \in Answers :
        LET c == VerifyFinish(a)
            l == log[r] \o <<"fetch_done">> \o
                 (IF c.success THEN <<"confirm_logged">> ELSE <<>>)
        IN  Apply(r, AfterHandler(env, req[r], details[r], verif[r],
                                  EventBranch(EventType(req[r].body, details[r])),
                                  calls[r], l))
    /\ UNCHANGED <<env, req, reply>>

Next ==
    \E r \in Solo : Receive(r) \/ ProviderAnswers(r) \/ ConfirmAnswers(r)

Spec == Init /\ [][Next]_vars

\* Concurrent deliveries: the provider delivers a webhook again while an
\* earlier delivery is still awaiting the payment lookup.  Both invocations
\* run in one process, interleaved at their awaits.
Redeliveries ==
    { [method |-> "POST", headers |-> NoHeaders, body |-> Body("json", p, 0)] :
        p \in { With(BasePayload, "type", "payment.succeeded"),
                With(BasePayload, "type", "payment.failed"),
                With(BasePayload, "type", "payment.refunded"),
                With(BasePayload, "type", "payment.unknown"),
                [k \in {"type"} |-> "payment.succeeded"] } }

InitConcurrent ==
    /\ Init
    /\ env.secret = Undefined
    /\ env.nodeEnv = "production"

Deliver(r) ==
    /\ pc[r] = "idle"
    /\ \E q \in Redeliveries :
        /\ req' = [req EXCEPT ![r] = q]
        /\ Apply(r, Begin(env, q))
    /\ UNCHANGED <<env, reply>>

NextConcurrent ==
    \E r \in Ids : Deliver(r) \/ ProviderAnswers(r) \/ ConfirmAnswers(r)

SpecConcurrent == InitConcurrent /\ [][NextConcurrent]_vars

----------------------------------------------------------------------------
\* Properties

Has(l, x) == \E i \in DOMAIN l : l[i] = x
Arrived(r) == pc[r] # "idle"
Done(r) == pc[r] = "done"

HandlerEvents == {"success", "failure", "refund"}
RanHandler(r) == \E x \in HandlerEvents : Has(log[r], x)

\* nothing beyond the step that rejected the request was done for r
NothingFurther(r) ==
    /\ ~Has(log[r], "parse")
    /\ ~Has(log[r], "fetch")
    /\ calls[r] = 0
    /\ ~RanHandler(r)
    /\ ~Has(log[r], "unhandled")

\* every value the payload carries is a string
WellTyped(q) ==
    \A k \in DOMAIN q.body.payload \ NumKeys : q.body.payload[k] # Obj

\* C1: a request whose method is not POST is answered 405 with the error
\* envelope (success false, an error and a message), and neither a signature
\* check, nor field extraction, nor a provider call, nor an outcome handler
\* happens for it.
C1_NonPostIs405 ==
    \A r \in Ids :
        (Arrived(r) /\ req[r].method # "POST") =>
            /\ Done(r)
            /\ resp[r].status = 405
            /\ resp[r].success = FALSE
            /\ Truthy(resp[r].error)
            /\ resp[r].message # <<>>
            /\ ~Has(log[r], "sig_verify") /\ ~Has(log[r], "sig_skip")
            /\ NothingFurther(r)

C1_Witness ==
    \E r \in Ids :
        /\ req[r].method = "PUT"
        /\ ~BodyEmpty(req[r].body)
        /\ resp[r].status = 405

\* C2: with a secret configured and a signature header present, a POST whose
\* signature is the HMAC-SHA256 of the body it carries passes the signature
\* check, and one whose signature is not is answered 401 with nothing further
\* done.
C2_SignatureDecidesOnTheBody ==
    \A r \in Ids :
        LET q == req[r]
            signature == SignatureHeader(q.headers)
        IN  ( /\ Arrived(r) /\ q.method = "POST" /\ ~BodyEmpty(q.body)
              /\ Truthy(env.secret) /\ SigTruthy(signature) ) =>
                IF signature = HmacHex(env.secret, WireText(q.body))
                THEN Has(log[r], "sig_ok") /\ resp[r].status # 401
                ELSE resp[r].status = 401 /\ NothingFurther(r)

\* C3: when the secret is unconfigured or no signature header is present,
\* verification is skipped: a POST with a non-empty body is not answered 401,
\* whatever the headers carry, and goes on to field extraction.  With a
\* secret, the header that is verified is the first one present among
\* x-polar-signature, polar-signature, x-signature.
C3_SkippedWithoutSecretOrHeader ==
    \A r \in Ids :
        LET q == req[r]
            h == q.headers
            post == Arrived(r) /\ q.method = "POST" /\ ~BodyEmpty(q.body)
        IN  /\ ( /\ post
                 /\ \/ ~Truthy(env.secret)
                    \/ /\ ~SigTruthy(h.xpolar)
                       /\ ~SigTruthy(h.polar)
                       /\ ~SigTruthy(h.xsig) ) =>
                    /\ resp[r].status # 401
                    /\ ~Has(log[r], "sig_verify")
                    /\ Has(log[r], "sig_skip")
                    /\ Has(log[r], "parse")
            /\ (post /\ Truthy(env.secret)) =>
                    /\ Has(log[r], "sig_verify") <=>
                        \E s \in {h.xpolar, h.polar, h.xsig} : SigTruthy(s)
                    /\ (SigTruthy(h.xpolar) /\ h.xpolar.tweak = 1) => resp[r].status = 401
                    /\ ( /\ ~SigTruthy(h.xpolar) /\ q.body.kind = "text"
                         /\ h.polar = HmacHex(env.secret, WireText(q.body)) ) =>
                            Has(log[r], "sig_ok")

C3_Witness ==
    \E r \in Ids :
        /\ req[r].method = "POST"
        /\ ~Truthy(env.secret)
        /\ SigTruthy(req[r].headers.xpolar)
        /\ req[r].headers.xpolar.tweak = 1
        /\ Has(log[r], "parse")
        /\ resp[r].status = 200

\* C4: a POST that passed or skipped the signature check and carries none of
\* the six payment-id keys is answered 400 "Invalid payment data" with no
\* provider call and no outcome handler; the handler goes past extraction
\* only with a non-null paymentId.
C4_MissingPaymentIdIs400 ==
    \A r \in Ids :
        /\ ( /\ Has(log[r], "sig_ok") \/ Has(log[r], "sig_skip")
             /\ \A k \in IdKeys : Prop(req[r].body, k) = Undefined ) =>
                /\ Done(r)
                /\ resp[r].status = 400
                /\ resp[r].error = "Invalid payment data"
                /\ calls[r] = 0
                /\ ~Has(log[r], "fetch")
                /\ ~RanHandler(r) /\ ~Has(log[r], "unhandled")
        /\ ( \/ Has(log[r], "extracted") \/ Has(log[r], "fetch")
             \/ Has(log[r], "verified") \/ RanHandler(r) \/ resp[r].status = 200 ) =>
                /\ details[r].paymentId \notin {Null, Undefined, ""}
                /\ \E k \in IdKeys : Prop(req[r].body, k) = details[r].paymentId

C4_Witness ==
    \E r \in Ids :
        /\ req[r].body.kind = "json"
        /\ DOMAIN req[r].body.payload = {"type"}
        /\ Has(log[r], "sig_ok")
        /\ resp[r].status = 400
        /\ resp[r].error = "Invalid payment data"

\* two characters that differ at most in case
SameLetter(a, b) ==
    \/ a = b
    \/ \E i \in DOMAIN Upper :
        {a, b} = {Upper[i], Lower[i]}

EqualsIgnoringCase(s, t) ==
    /\ Len(s) = Len(t)
    /\ \A i \in DOMAIN s : SameLetter(s[i], t[i])

AllowList == {Chars("succeeded"), Chars("completed"), Chars("paid"), Chars("processed")}

\* the status the provider reported: status, else state, else payment_status
Reported(data) ==
    IF data.status # NoStr THEN data.status
    ELSE IF data.state # NoStr THEN data.state
    ELSE data.payment_status

\* the provider's answer is a success response with an allow-listed status
Accepts(a) ==
    /\ a.net = "ok" /\ a.code = "200" /\ a.json
    /\ \E w \in AllowList : EqualsIgnoringCase(Reported(a.data), w)

\* C5: with a credential configured, the provider's answer is accepted exactly
\* when it is a success response whose status field is, whatever its case, one
\* of succeeded, completed, paid, processed; on any other answer the handler
\* answers 400 and runs no outcome handler.
C5_AllowListDecides ==
    \A r \in Ids :
        (Truthy(env.apiKey) /\ reply[r] # NoAnswer) =>
            /\ verif[r].success <=> Accepts(reply[r])
            /\ Accepts(reply[r]) => Has(log[r], "verified") /\ resp[r].status # 400
            /\ ~Accepts(reply[r]) =>
                /\ Done(r)
                /\ resp[r].status = 400
                /\ resp[r].error = "Payment verification failed"
                /\ ~RanHandler(r) /\ ~Has(log[r], "unhandled")

C5_Witness ==
    \E r \in Ids :
        /\ Truthy(env.apiKey)
        /\ reply[r].data.status = Chars("PROCESSED")
        /\ resp[r].status = 200

C5_WitnessRejected ==
    \E r \in Ids :
        /\ reply[r].data.payment_status = Chars("pending")
        /\ resp[r].status = 400

\* C6 as stated: one request makes at most one outbound call.
C6_AtMostOneCall ==
    \A r \in Ids : calls[r] <= 1

Count(l, x) == Cardinality({i \in DOMAIN l : l[i] = x})

\* C6, amended: one request makes at most two outbound calls.  The first is
\* the handler's verification call, and it has completed before event routing
\* starts; the second is made only from inside the failure or the refund
\* handler, with a credential configured.  The success and the unhandled
\* branch never make one.
C6_AtMostTwoCalls ==
    \A r \in Ids :
        LET l == log[r]
        IN  /\ calls[r] <= 2
            /\ calls[r] = Count(l, "fetch")
            /\ Count(l, "fetch_done") <= Count(l, "fetch")
            /\ \A i \in DOMAIN l :
                (l[i] \in HandlerEvents \cup {"unhandled"}) =>
                    /\ Count(SubSeq(l, 1, i), "fetch") <= 1
                    /\ Count(SubSeq(l, 1, i), "fetch_done") = Count(SubSeq(l, 1, i), "fetch")
            /\ calls[r] = 2 =>
                /\ Truthy(env.apiKey)
                /\ Has(l, "failure") \/ Has(l, "refund")
            /\ (Has(l, "success") \/ Has(l, "unhandled")) => calls[r] <= 1

C6_Witness ==
    \E r \in Ids :
        /\ calls[r] = 2
        /\ Has(log[r], "refund")
        /\ resp[r].status = 200

StageNum(ev) ==
    CASE ev = "enter" -> 1
      [] ev \in {"sig_ok", "sig_skip"} -> 2
      [] ev = "extracted" -> 3
      [] ev = "verified" -> 4
      [] ev = "routed" -> 5
      [] ev = "respond" -> 6
      [] ev = "error" -> 7
      [] OTHER -> 0

IsStage(ev) == StageNum(ev) > 0

\* the stages r has been through, as numbers: 1 Received .. 6 Responded, 7 an
\* error response
StageTrace(l) ==
    LET st == SelectSeq(l, IsStage)
    IN  [i \in DOMAIN st |-> StageNum(st[i])]

\* C7: a request goes through Received, SignatureChecked, FieldsExtracted,
\* ProviderVerified, EventRouted, Responded in that order, one stage at a
\* time and each at most once, or leaves the chain from any stage with one
\* error response; an outcome handler runs only after verification passed and
\* a 200 is sent only after event routing.
C7_StagesInOrder ==
    \A r \in Ids :
        LET l == log[r]
            t == StageTrace(l)
        IN  /\ \A i \in DOMAIN t :
                \/ t[i] = i
                \/ t[i] = 7 /\ i = Len(t) /\ i > 1 /\ ~Has(l, "respond")
            /\ \A i \in DOMAIN l :
                (l[i] \in HandlerEvents \cup {"unhandled"}) =>
                    \E j \in 1 .. (i - 1) : l[j] = "verified"
            /\ Has(l, "verified") => verif[r].success
            /\ Has(l, "respond") <=> resp[r].status = 200
            /\ Has(l, "error") <=> resp[r].status \in {400, 401, 405, 500}
            /\ Done(r) <=> (Has(l, "respond") \/ Has(l, "error"))
            /\ Done(r) <=> resp[r] # NoResp
            /\ (Has(l, "respond") \/ Has(l, "error")) =>
                l[Len(l)] \in {"respond", "error"}

C7_Witness ==
    \E r \in Ids :
        /\ StageTrace(log[r]) = <<1, 2, 3, 4, 5, 6>>
        /\ calls[r] = 2
        /\ resp[r].status = 200

\* C8: without a credential no outbound call is made and verification counts
\* as passed for every payment id, so the request reaches event routing and
\* (its id and event type being strings) is answered 200.
C8_NoCredentialPasses ==
    \A r \in Ids :
        ( /\ Arrived(r) /\ ~Truthy(env.apiKey)
          /\ Has(log[r], "sig_ok") \/ Has(log[r], "sig_skip")
          /\ \E k \in IdKeys : Truthy(Prop(req[r].body, k)) ) =>
            /\ calls[r] = 0
            /\ ~Has(log[r], "fetch")
            /\ reply[r] = NoAnswer
            /\ verif[r].success
            /\ Has(log[r], "verified")
            /\ RanHandler(r) \/ Has(log[r], "unhandled")
            /\ Done(r)
            /\ WellTyped(req[r]) => resp[r].status = 200

C8_Witness ==
    \E r \in Ids :
        /\ ~Truthy(env.apiKey)
        /\ calls[r] = 0
        /\ Has(log[r], "failure")
        /\ resp[r].status = 200

\* the branch the spec assigns to an event type
BranchOf(t) ==
    CASE t \in {"payment.succeeded", "payment.completed", "checkout.succeeded"} -> "success"
      [] t \in {"payment.failed", "payment.cancelled", "checkout.failed"} -> "failure"
      [] t = "payment.refunded" -> "refund"
      [] OTHER -> "unhandled"

\* C9: once verification has passed, the event type (type, else event)
\* selects exactly one branch: the success, failure or refund handler for the
\* event types of each, and for any other event type no handler at all and a
\* 200 whose processing.message names the event type and says it was not
\* processed.
C9_EventRouting ==
    \A r \in Ids :
        LET q == req[r]
            t == IF Truthy(Prop(q.body, "type")) THEN Prop(q.body, "type")
                 ELSE Prop(q.body, "event")
            m == resp[r].processing.message
        IN  (Has(log[r], "verified") /\ t # Obj) =>
                /\ \A b \in HandlerEvents \cup {"unhandled"} :
                    Has(log[r], b) <=> b = BranchOf(t)
                /\ \A b \in HandlerEvents \cup {"unhandled"} : Count(log[r], b) <= 1
                /\ BranchOf(t) = "unhandled" =>
                    /\ Done(r)
                    /\ resp[r].status = 200
                    /\ resp[r].processing.success
                    /\ Truthy(t) => Has(m, t)
                    /\ m[Len(m)] = "' received but not processed"

C9_Witness ==
    \E r \in Ids :
        /\ Prop(req[r].body, "type") = "payment.unknown"
        /\ Prop(req[r].body, "event") = "payment.refunded"
        /\ Truthy(env.apiKey)
        /\ resp[r].status = 200
        /\ Has(resp[r].processing.message, "payment.unknown")

C9_WitnessRefund ==
    \E r \in Ids :
        /\ Prop(req[r].body, "type") = ""
        /\ Prop(req[r].body, "event") = "payment.refunded"
        /\ Has(log[r], "refund")
        /\ resp[r].status = 200

\* C10 as stated: a 500 carries the stack in every configuration but
\* production.
C10_StackInEveryNonProduction ==
    \A r \in Ids :
        resp[r].status = 500 =>
            (resp[r].details # Undefined <=> env.nodeEnv # "production")

\* a value the handler interpolates into a string after verification is no
\* string: the event type on the unhandled branch, the payment id in an
\* outcome handler
RaisesInRouting(r) ==
    LET q == req[r]
        t == IF Truthy(Prop(q.body, "type")) THEN Prop(q.body, "type")
             ELSE Prop(q.body, "event")
    IN  /\ Has(log[r], "verified")
        /\ \/ t = Obj
           \/ BranchOf(t) # "unhandled" /\ details[r].paymentId = Obj

\* C10, amended: an exception that reaches the handler boundary is answered
\* 500 with the error's message; the stack is in that response exactly when
\* NODE_ENV is "development", and in no other configuration.
C10_CaughtIs500 ==
    \A r \in Ids :
        /\ (RaisesInRouting(r) /\ pc[r] # "awaitConfirm") =>
                Done(r) /\ resp[r].status = 500
        /\ resp[r].status = 500 =>
                /\ RaisesInRouting(r)
                /\ Has(log[r], "throw")
                /\ resp[r].success = FALSE
                /\ resp[r].error = "Internal server error"
                /\ resp[r].message # <<>>
                /\ resp[r].details # Undefined <=> env.nodeEnv = "development"

C10_Witness ==
    \E r \in Ids :
        /\ resp[r].status = 500
        /\ env.nodeEnv = "test"
        /\ resp[r].details = Undefined

C10_WitnessStack ==
    \E r \in Ids :
        /\ resp[r].status = 500
        /\ env.nodeEnv = "development"
        /\ resp[r].details # Undefined

\* what the handler does with request q alone, the provider answering a
SoloOutcome(e, q, a) ==
    LET b == Begin(e, q)
    IN  IF b.pc = "done" THEN b
        ELSE
        LET v == VerifyFinish(a)
            l == b.log \o <<"fetch_done">>
            o == IF v.success
                 THEN Route(e, q, b.details, v, b.calls, l \o <<"verified">>)
                 ELSE VerificationFailed(b.details, v, b.calls, l)
        IN  IF o.pc = "done" THEN o
            ELSE AfterHandler(e, q, o.details, o.verif,
                              EventBranch(EventType(q.body, o.details)),
                              o.calls, o.log \o <<"fetch_done">>)

\* a response of one of the two envelopes
ValidEnvelope(rs) ==
    /\ rs.status \in {200, 400, 401, 405, 500}
    /\ rs.success <=> rs.status = 200
    /\ rs.status # 200 => Truthy(rs.error) /\ rs.message # <<>>
    /\ rs.status = 200 =>
        /\ rs.verification.verified
        /\ Truthy(rs.verification.paymentId)
        /\ rs.payment.id = rs.verification.paymentId
        /\ rs.processing.success
        /\ rs.processing.message # <<>>

\* C11: deliveries handled concurrently are independent: each ends with
\* exactly one well-formed response, the one it would get handled alone with
\* the same provider answers, and what one invocation holds (its details, its
\* verification result) is never that of the other.
C11_DeliveriesIndependent ==
    \A r \in Ids :
        LET solo == SoloOutcome(env, req[r], reply[r])
        IN  /\ pc[r] = "idle" =>
                /\ resp[r] = NoResp /\ log[r] = <<>> /\ calls[r] = 0
                /\ details[r] = NoDetails /\ verif[r] = NoVerif
            /\ ~Done(r) => resp[r] = NoResp
            /\ Done(r) =>
                /\ resp[r] = solo.resp
                /\ details[r] = solo.details
                /\ verif[r] = solo.verif
                /\ calls[r] = solo.calls
                /\ ValidEnvelope(resp[r])
                /\ Count(log[r], "respond") + Count(log[r], "error") = 1
            /\ pc[r] = "awaitConfirm" =>
                /\ verif[r] = VerifyFinish(reply[r])
                /\ details[r] = parsePaymentDetails(req[r].body)

C11_Witness ==
    /\ req[1] = req[2]
    /\ Done(1) /\ Done(2)
    /\ calls[1] = 2 /\ resp[1].status = 200
    /\ resp[1].verification.provider = Chars("paid")
    /\ calls[2] = 2 /\ resp[2].status = 200
    /\ resp[2].verification.provider = Chars("completed")

\* the nested sources of the payment id
NestedIdKeys == {"data.id", "data.payment_id", "data.checkout_id"}

\* C12: one precedence for every field: when a nested data.* source of the
\* payment id is present, the extracted paymentId is the value of a nested
\* source, never that of a top-level key.
C12_NestedSourceWins ==
    \A r \in Solo :
        (/\ Has(log[r], "extracted")
         /\ \E k \in NestedIdKeys : Truthy(Prop(req[r].body, k)))
        => \E k \in NestedIdKeys :
            /\ Truthy(Prop(req[r].body, k))
            /\ details[r].paymentId = Prop(req[r].body, k)

\* numbers are counted in hundredths: an integer number of cents is a
\* multiple of 100
IsInteger(n) == n % 100 = 0

\* C13: an integer amount_cents = c yields amount = c / 100 with
\* amountCents = c, and an amount in decimal units in the amount key, with no
\* amount_cents, is kept as it is: it is not divided by 100.
C13_DecimalAmountKept ==
    \A r \in Solo :
        Has(log[r], "extracted") =>
            LET c == NumOr(NumProp(req[r].body, "data.amount_cents"),
                           NumProp(req[r].body, "amount_cents"))
                a == NumOr(NumProp(req[r].body, "data.amount"),
                           NumProp(req[r].body, "amount"))
            IN  /\ (NumTruthy(c) /\ IsInteger(c)) =>
                    /\ details[r].amount * 100 = c
                    /\ details[r].amountCents = c
                /\ (~NumTruthy(c) /\ NumTruthy(a)) => details[r].amount = a

\* the event type of r's request: type, else event
TypeOf(r) ==
    IF Truthy(Prop(req[r].body, "type")) THEN Prop(req[r].body, "type")
    ELSE Prop(req[r].body, "event")

\* C14: with a credential configured, the failure and the refund handler run
\* only for a request whose payment the provider reported with an allow-listed
\* status; a failure or refund event whose reported status is outside the
\* allow-list is answered 400 and never reaches its handler.
C14_HandlersNeedAllowListedStatus ==
    \A r \in Ids :
        Truthy(env.apiKey) =>
            /\ (Has(log[r], "failure") \/ Has(log[r], "refund")) =>
                /\ reply[r] # NoAnswer
                /\ \E w \in AllowList : EqualsIgnoringCase(Reported(reply[r].data), w)
            /\ (/\ BranchOf(TypeOf(r)) \in {"failure", "refund"}
                /\ reply[r] # NoAnswer
                /\ ~\E w \in AllowList : EqualsIgnoringCase(Reported(reply[r].data), w))
               => /\ Done(r)
                  /\ resp[r].status = 400
                  /\ ~Has(log[r], "failure") /\ ~Has(log[r], "refund")

C14_Witness ==
    \E r \in Ids :
        /\ Truthy(env.apiKey)
        /\ TypeOf(r) = "payment.refunded"
        /\ reply[r].net = "ok" /\ reply[r].code = "200" /\ reply[r].json
        /\ reply[r].data.status = Chars("refunded")
        /\ resp[r].status = 400
        /\ ~Has(log[r], "refund")

C14_WitnessReached ==
    \E r \in Ids :
        /\ Truthy(env.apiKey)
        /\ TypeOf(r) = "payment.failed"
        /\ reply[r].data.status = Chars("paid")
        /\ Has(log[r], "failure")
        /\ Done(r) /\ resp[r].status = 200

====
